---- MODULE Spec2Model ----
(***************************************************************************)
(* Model of the MCP3008 / MCP3004 ADC driver (src/src/lib.rs).             *)
(*                                                                         *)
(* Four drivers (Mcp3008, AsyncMcp3008, Mcp3004, AsyncMcp3004) each own    *)
(* one SPI device handle.  read_channel builds a 3-byte write buffer,      *)
(* issues one SpiDevice::transaction([Write(&write_buffer),                *)
(* Read(&mut read_buffer)]) and decodes the read buffer into a u16.        *)
(* The SPI device is the environment: the outcome of a transaction (the    *)
(* 3 bytes it put into read_buffer, or an error) is an input.              *)
(***************************************************************************)
EXTENDS Integers, Sequences, FiniteSets, TLC

VARIABLES
    pc,     \* pc[d]: "ready" (no call in progress) or "awaiting" (async call
            \* suspended at `.await` on its transaction)
    bus,    \* bus[d]: the transactions issued so far on d's spi_dev, in order;
            \* each is the ordered list of operations handed to transaction()
    calls   \* calls[d]: one record per read_channel call on d, in order:
            \* its argument, the outcome of its transaction, what it returned

vars == <<pc, bus, calls>>

(***************************************************************************)
(* Bounds of the model.                                                    *)
(***************************************************************************)
\* Total number of read_channel calls (over all four drivers) in one run.
MaxCalls == 2

(***************************************************************************)
(* Fixed-width integer arithmetic, as Rust computes it on u8 / u16.        *)
(***************************************************************************)
RECURSIVE BitAnd(_, _)
BitAnd(a, b) ==
    IF a = 0 \/ b = 0 THEN 0
    ELSE (a % 2) * (b % 2) + 2 * BitAnd(a \div 2, b \div 2)

RECURSIVE BitOr(_, _)
BitOr(a, b) ==
    IF a = 0 THEN b
    ELSE IF b = 0 THEN a
    ELSE (IF a % 2 = 1 \/ b % 2 = 1 THEN 1 ELSE 0) + 2 * BitOr(a \div 2, b \div 2)

\* x << n on a w-bit unsigned integer: bits shifted past the width are lost.
Shl(x, n, w) == (x * 2^n) % 2^w

\* `x as u16` for a u8 x: zero extension, the value is kept.
AsU16(x) == x % 2^16

(***************************************************************************)
(* Channel enumerations; `ch as u8` is the variant's 0-based position.     *)
(***************************************************************************)
Channels8 == <<"CH0", "CH1", "CH2", "CH3", "CH4", "CH5", "CH6", "CH7">>

Channels4 == <<"CH0", "CH1", "CH2", "CH3">>

Range(s) == {s[i] : i \in 1..Len(s)}

Channels8_as_u8(ch) == (CHOOSE i \in 1..Len(Channels8) : Channels8[i] = ch) - 1

Channels4_as_u8(ch) == (CHOOSE i \in 1..Len(Channels4) : Channels4[i] = ch) - 1

(***************************************************************************)
(* The drivers.                                                            *)
(***************************************************************************)
Drivers == {"Mcp3008", "AsyncMcp3008", "Mcp3004", "AsyncMcp3004"}

AsyncDrivers == {"AsyncMcp3008", "AsyncMcp3004"}

ChannelsOf(d) ==
    IF d \in {"Mcp3008", "AsyncMcp3008"} THEN Range(Channels8) ELSE Range(Channels4)

(***************************************************************************)
(* The SPI device (environment).                                           *)
(***************************************************************************)
\* embedded_hal::spi::Operation::Write(&buf) / Operation::Read(&mut buf)
OpWrite(buf) == [op |-> "Write", buf |-> buf]

OpRead(buf) == [op |-> "Read", buf |-> buf]

\* SpiDev::Error values: opaque to the driver.
BusErrors == {"Overrun", "ModeFault"}

TxnOk(bytes) == [tag |-> "Ok", buf |-> bytes]

TxnErr(e) == [tag |-> "Err", err |-> e]

\* A transaction that has been issued and has not completed yet.
Outstanding == [tag |-> "Outstanding"]

\* The bytes a transaction may leave in the 3-byte read buffer in the runs of
\* the driver specification.
Replies == {<<0, 2, 255>>, <<165, 253, 0>>}

Outcomes == {TxnOk(r) : r \in Replies} \cup {TxnErr(e) : e \in BusErrors}

\* Every reply whose bytes 1 and 2 range over all of u8, for the decode
\* specification.
WideReplies == {<<x, b1, b2>> : x \in {0, 255}, b1 \in 0..255, b2 \in 0..255}

WideOutcomes == {TxnOk(r) : r \in WideReplies}

(***************************************************************************)
(* Results of read_channel: Result<u16, SpiDev::Error>.                    *)
(***************************************************************************)
Ok(r) == [tag |-> "Ok", val |-> r]

Err(e) == [tag |-> "Err", err |-> e]

\* The call has not returned.
Pending == [tag |-> "Pending"]

\* Variant: the error is replaced by a generic one on the way out.
Try_wrapped(e) == Err("Other")

\* The `?` operator on Result<(), SpiDev::Error> in a function returning
\* Result<u16, SpiDev::Error>: Err(e) returns Err(From::from(e)), and From<T>
\* for T is the reflexive impl.
Try(e) == Err(e)


Last(s) == s[Len(s)]

(***************************************************************************)
(* Mcp3008 (blocking, 8 channels).                                         *)
(***************************************************************************)
\* Variant: the single-ended bit (1 << 3) is left out.
Mcp3008_write_buffer_differential(ch) ==
    <<1, Shl(Channels8_as_u8(ch), 4, 8), 0>>

\* `[1, ((1 << 3) | (ch as u8)) << 4, 0]`: three u8.
Mcp3008_write_buffer(ch) ==
    <<1, Shl(BitOr(Shl(1, 3, 8), Channels8_as_u8(ch)), 4, 8), 0>>

\* Variant: the bytes are taken one position early (read_buffer[0], [1]).
Mcp3008_decode_off_by_one(read_buffer) ==
    BitAnd(BitOr(Shl(AsU16(read_buffer[1]), 8, 16), AsU16(read_buffer[2])), 1023)

\* `(((read_buffer[1] as u16) << 8) | (read_buffer[2] as u16)) & 0x3ff`;
\* Rust indexes from 0, the sequences here from 1.
Mcp3008_decode(read_buffer) ==
    BitAnd(BitOr(Shl(AsU16(read_buffer[2]), 8, 16), AsU16(read_buffer[3])), 1023)

\* The transactions one call issues on spi_dev: a single transaction whose
\* operations are Write(&write_buffer) then Read(&mut read_buffer), with
\* read_buffer = [0u8; 3].
Mcp3008_transactions(ch) ==
    << <<OpWrite(Mcp3008_write_buffer(ch)), OpRead(<<0, 0, 0>>)>> >>

\* What the call returns once its transaction has ended with `outcome`:
\* `?` returns the error, otherwise the read buffer (filled by the
\* transaction) is decoded and returned as Ok(r).
Mcp3008_return(outcome) ==
    IF outcome.tag = "Err" THEN Try(outcome.err)
    ELSE Ok(Mcp3008_decode(outcome.buf))

\* Variant: the driver remembers a fault; once a transaction has failed,
\* later calls return that fault again.
Mcp3008_read_channel_sticky(ch, outcome) ==
    LET faulted == {i \in 1..Len(calls["Mcp3008"]) :
                        calls["Mcp3008"][i].ret.tag = "Err"}
    IN  /\ pc["Mcp3008"] = "ready"
        /\ bus' = [bus EXCEPT !["Mcp3008"] = @ \o Mcp3008_transactions(ch)]
        /\ calls' = [calls EXCEPT !["Mcp3008"] =
                        Append(@, [ch |-> ch, outcome |-> outcome,
                                   ret |-> IF faulted = {} THEN Mcp3008_return(outcome)
                                           ELSE calls["Mcp3008"][CHOOSE i \in faulted : TRUE].ret])]
        /\ UNCHANGED pc

\* Mcp3008::read_channel(&mut self, ch): the whole blocking call.
Mcp3008_read_channel(ch, outcome) ==
    /\ pc["Mcp3008"] = "ready"
    /\ bus' = [bus EXCEPT !["Mcp3008"] = @ \o Mcp3008_transactions(ch)]
    /\ calls' = [calls EXCEPT !["Mcp3008"] =
                    Append(@, [ch |-> ch, outcome |-> outcome,
                               ret |-> Mcp3008_return(outcome)])]
    /\ UNCHANGED pc

(***************************************************************************)
(* AsyncMcp3008 (feature "async", 8 channels).                             *)
(***************************************************************************)
\* `[1, ((1 << 3) | (ch as u8)) << 4, 0]`: three u8.
AsyncMcp3008_write_buffer(ch) ==
    <<1, Shl(BitOr(Shl(1, 3, 8), Channels8_as_u8(ch)), 4, 8), 0>>

\* Variant: a 9-bit mask, 0x1ff.
AsyncMcp3008_decode_mask9(read_buffer) ==
    BitAnd(BitOr(Shl(AsU16(read_buffer[2]), 8, 16), AsU16(read_buffer[3])), 511)

\* `(((read_buffer[1] as u16) << 8) | (read_buffer[2] as u16)) & 0x3ff`;
\* Rust indexes from 0, the sequences here from 1.
AsyncMcp3008_decode(read_buffer) ==
    BitAnd(BitOr(Shl(AsU16(read_buffer[2]), 8, 16), AsU16(read_buffer[3])), 1023)

\* The transactions one call issues on spi_dev: a single transaction whose
\* operations are Write(&write_buffer) then Read(&mut read_buffer), with
\* read_buffer = [0u8; 3].
AsyncMcp3008_transactions(ch) ==
    << <<OpWrite(AsyncMcp3008_write_buffer(ch)), OpRead(<<0, 0, 0>>)>> >>

\* What the call returns once its transaction has ended with `outcome`:
\* `?` returns the error, otherwise the read buffer (filled by the
\* transaction) is decoded and returned as Ok(r).
AsyncMcp3008_return(outcome) ==
    IF outcome.tag = "Err" THEN Try(outcome.err)
    ELSE Ok(AsyncMcp3008_decode(outcome.buf))

\* AsyncMcp3008::read_channel(&mut self, ch), polled up to `.await`: the
\* transaction is issued and the task is suspended on it.
AsyncMcp3008_read_channel(ch) ==
    /\ pc["AsyncMcp3008"] = "ready"
    /\ pc' = [pc EXCEPT !["AsyncMcp3008"] = "awaiting"]
    /\ bus' = [bus EXCEPT !["AsyncMcp3008"] = @ \o AsyncMcp3008_transactions(ch)]
    /\ calls' = [calls EXCEPT !["AsyncMcp3008"] =
                    Append(@, [ch |-> ch, outcome |-> Outstanding, ret |-> Pending])]

\* Variant: the call does not wait for its transaction; it returns at once,
\* decoding the read buffer as it stands.
AsyncMcp3008_read_channel_no_await ==
    /\ pc["AsyncMcp3008"] = "awaiting"
    /\ pc' = [pc EXCEPT !["AsyncMcp3008"] = "ready"]
    /\ calls' = [calls EXCEPT !["AsyncMcp3008"][Len(calls["AsyncMcp3008"])].ret =
                    IF Last(calls["AsyncMcp3008"]).outcome = Outstanding
                    THEN Ok(AsyncMcp3008_decode(<<0, 0, 0>>))
                    ELSE AsyncMcp3008_return(Last(calls["AsyncMcp3008"]).outcome)]
    /\ UNCHANGED bus

\* AsyncMcp3008::read_channel resumed after `.await`: the transaction has
\* completed, the call returns.
AsyncMcp3008_read_channel_resume ==
    /\ pc["AsyncMcp3008"] = "awaiting"
    /\ Last(calls["AsyncMcp3008"]).outcome # Outstanding
    /\ pc' = [pc EXCEPT !["AsyncMcp3008"] = "ready"]
    /\ calls' = [calls EXCEPT !["AsyncMcp3008"][Len(calls["AsyncMcp3008"])].ret =
                    AsyncMcp3008_return(Last(calls["AsyncMcp3008"]).outcome)]
    /\ UNCHANGED bus

(***************************************************************************)
(* Mcp3004 (blocking, 4 channels).                                         *)
(***************************************************************************)
\* Variant: the channel code is taken 1-based.
Mcp3004_write_buffer_one_based(ch) ==
    <<1, Shl(BitOr(Shl(1, 3, 8), Channels4_as_u8(ch) + 1), 4, 8), 0>>

\* `[1, ((1 << 3) | (ch as u8)) << 4, 0]`: three u8.
Mcp3004_write_buffer(ch) ==
    <<1, Shl(BitOr(Shl(1, 3, 8), Channels4_as_u8(ch)), 4, 8), 0>>

\* Variant: an 11-bit mask, 0x7ff.
Mcp3004_decode_mask11(read_buffer) ==
    BitAnd(BitOr(Shl(AsU16(read_buffer[2]), 8, 16), AsU16(read_buffer[3])), 2047)

\* `(((read_buffer[1] as u16) << 8) | (read_buffer[2] as u16)) & 0x3ff`;
\* Rust indexes from 0, the sequences here from 1.
Mcp3004_decode(read_buffer) ==
    BitAnd(BitOr(Shl(AsU16(read_buffer[2]), 8, 16), AsU16(read_buffer[3])), 1023)

\* The transactions one call issues on spi_dev: a single transaction whose
\* operations are Write(&write_buffer) then Read(&mut read_buffer), with
\* read_buffer = [0u8; 3].
Mcp3004_transactions(ch) ==
    << <<OpWrite(Mcp3004_write_buffer(ch)), OpRead(<<0, 0, 0>>)>> >>

\* What the call returns once its transaction has ended with `outcome`:
\* `?` returns the error, otherwise the read buffer (filled by the
\* transaction) is decoded and returned as Ok(r).
Mcp3004_return(outcome) ==
    IF outcome.tag = "Err" THEN Try(outcome.err)
    ELSE Ok(Mcp3004_decode(outcome.buf))

\* Mcp3004::read_channel(&mut self, ch): the whole blocking call.
Mcp3004_read_channel(ch, outcome) ==
    /\ pc["Mcp3004"] = "ready"
    /\ bus' = [bus EXCEPT !["Mcp3004"] = @ \o Mcp3004_transactions(ch)]
    /\ calls' = [calls EXCEPT !["Mcp3004"] =
                    Append(@, [ch |-> ch, outcome |-> outcome,
                               ret |-> Mcp3004_return(outcome)])]
    /\ UNCHANGED pc

(***************************************************************************)
(* AsyncMcp3004 (feature "async", 4 channels).                             *)
(***************************************************************************)
\* `[1, ((1 << 3) | (ch as u8)) << 4, 0]`: three u8.
AsyncMcp3004_write_buffer(ch) ==
    <<1, Shl(BitOr(Shl(1, 3, 8), Channels4_as_u8(ch)), 4, 8), 0>>

\* Variant: a 12-bit mask, 0xfff.
AsyncMcp3004_decode_mask12(read_buffer) ==
    BitAnd(BitOr(Shl(AsU16(read_buffer[2]), 8, 16), AsU16(read_buffer[3])), 4095)

\* `(((read_buffer[1] as u16) << 8) | (read_buffer[2] as u16)) & 0x3ff`;
\* Rust indexes from 0, the sequences here from 1.
AsyncMcp3004_decode(read_buffer) ==
    BitAnd(BitOr(Shl(AsU16(read_buffer[2]), 8, 16), AsU16(read_buffer[3])), 1023)

\* Variant: the write and the read are issued as two transactions.
AsyncMcp3004_transactions_split(ch) ==
    << <<OpWrite(AsyncMcp3004_write_buffer(ch))>>, <<OpRead(<<0, 0, 0>>)>> >>

\* The transactions one call issues on spi_dev: a single transaction whose
\* operations are Write(&write_buffer) then Read(&mut read_buffer), with
\* read_buffer = [0u8; 3].
AsyncMcp3004_transactions(ch) ==
    << <<OpWrite(AsyncMcp3004_write_buffer(ch)), OpRead(<<0, 0, 0>>)>> >>

\* What the call returns once its transaction has ended with `outcome`:
\* `?` returns the error, otherwise the read buffer (filled by the
\* transaction) is decoded and returned as Ok(r).
AsyncMcp3004_return(outcome) ==
    IF outcome.tag = "Err" THEN Try(outcome.err)
    ELSE Ok(AsyncMcp3004_decode(outcome.buf))

\* AsyncMcp3004::read_channel(&mut self, ch), polled up to `.await`: the
\* transaction is issued and the task is suspended on it.
AsyncMcp3004_read_channel(ch) ==
    /\ pc["AsyncMcp3004"] = "ready"
    /\ pc' = [pc EXCEPT !["AsyncMcp3004"] = "awaiting"]
    /\ bus' = [bus EXCEPT !["AsyncMcp3004"] = @ \o AsyncMcp3004_transactions(ch)]
    /\ calls' = [calls EXCEPT !["AsyncMcp3004"] =
                    Append(@, [ch |-> ch, outcome |-> Outstanding, ret |-> Pending])]

\* AsyncMcp3004::read_channel resumed after `.await`: the transaction has
\* completed, the call returns.
AsyncMcp3004_read_channel_resume ==
    /\ pc["AsyncMcp3004"] = "awaiting"
    /\ Last(calls["AsyncMcp3004"]).outcome # Outstanding
    /\ pc' = [pc EXCEPT !["AsyncMcp3004"] = "ready"]
    /\ calls' = [calls EXCEPT !["AsyncMcp3004"][Len(calls["AsyncMcp3004"])].ret =
                    AsyncMcp3004_return(Last(calls["AsyncMcp3004"]).outcome)]
    /\ UNCHANGED bus

(***************************************************************************)
(* The environment of the async drivers.                                   *)
(***************************************************************************)
\* The SPI device completes the outstanding transaction of driver d with one
\* of `outcomes` (the awaited future becomes ready).
SpiTransactionComplete(d, outcomes) ==
    /\ pc[d] = "awaiting"
    /\ Last(calls[d]).outcome = Outstanding
    /\ \E outcome \in outcomes :
          calls' = [calls EXCEPT ![d][Len(calls[d])].outcome = outcome]
    /\ UNCHANGED <<pc, bus>>

(***************************************************************************)
(* Specifications.                                                         *)
(***************************************************************************)
\* Mcp3008::new / AsyncMcp3008::new / Mcp3004::new / AsyncMcp3004::new: the
\* driver holds its spi_dev and nothing else; nothing has been sent.
Init ==
    /\ pc = [d \in Drivers |-> "ready"]
    /\ bus = [d \in Drivers |-> <<>>]
    /\ calls = [d \in Drivers |-> <<>>]

RECURSIVE SumLen(_, _)
SumLen(f, S) ==
    IF S = {} THEN 0
    ELSE LET d == CHOOSE x \in S : TRUE IN Len(f[d]) + SumLen(f, S \ {d})

\* Number of read_channel calls started so far.
CallsMade == SumLen(calls, Drivers)

Next ==
    \/ /\ CallsMade < MaxCalls
       /\ \E ch \in Range(Channels8), outcome \in Outcomes :
             Mcp3008_read_channel(ch, outcome)
    \/ /\ CallsMade < MaxCalls
       /\ \E ch \in Range(Channels4), outcome \in Outcomes :
             Mcp3004_read_channel(ch, outcome)
    \/ /\ CallsMade < MaxCalls
       /\ \E ch \in Range(Channels8) : AsyncMcp3008_read_channel(ch)
    \/ /\ CallsMade < MaxCalls
       /\ \E ch \in Range(Channels4) : AsyncMcp3004_read_channel(ch)
    \/ \E d \in AsyncDrivers : SpiTransactionComplete(d, Outcomes)
    \/ AsyncMcp3008_read_channel_resume
    \/ AsyncMcp3004_read_channel_resume

Spec == Init /\ [][Next]_vars

\* One read on a fresh driver, its transaction answered by any reply whose
\* data bytes range over all of u8.
NextDecode ==
    \/ /\ CallsMade = 0
       /\ \E outcome \in WideOutcomes : Mcp3008_read_channel("CH7", outcome)
    \/ /\ CallsMade = 0
       /\ \E outcome \in WideOutcomes : Mcp3004_read_channel("CH3", outcome)
    \/ CallsMade = 0 /\ AsyncMcp3008_read_channel("CH7")
    \/ CallsMade = 0 /\ AsyncMcp3004_read_channel("CH3")
    \/ \E d \in AsyncDrivers : SpiTransactionComplete(d, WideOutcomes)
    \/ AsyncMcp3008_read_channel_resume
    \/ AsyncMcp3004_read_channel_resume

SpecDecode == Init /\ [][NextDecode]_vars


(***************************************************************************)
(* Vocabulary of the properties.                                           *)
(***************************************************************************)
Drivers8 == {"Mcp3008", "AsyncMcp3008"}

Drivers4 == {"Mcp3004", "AsyncMcp3004"}

\* The protocol code of a channel name, as the data sheet numbers it.
ChannelCode(ch) ==
    CASE ch = "CH0" -> 0 [] ch = "CH1" -> 1 [] ch = "CH2" -> 2 [] ch = "CH3" -> 3
      [] ch = "CH4" -> 4 [] ch = "CH5" -> 5 [] ch = "CH6" -> 6 [] ch = "CH7" -> 7

CallIds(d) == 1..Len(calls[d])

\* Call i on driver d has returned.
Returned(d, i) == calls[d][i].ret # Pending

\* The transaction of call i on driver d has ended with a reply.
Replied(d, i) == calls[d][i].outcome.tag = "Ok"

\* The transaction of call i on driver d has ended with a fault.
Faulted(d, i) == calls[d][i].outcome.tag = "Err"

\* The command frame call i on driver d wrote (the buffer of the first
\* operation of its transaction).
FrameOf(d, i) == bus[d][i][1].buf

(***************************************************************************)
(* C1: for every channel of either device, the command frame read_channel  *)
(* writes is exactly the 3 bytes [0x01, ((0x08 | code) << 4) truncated to  *)
(* 8 bits, 0x00], code being the channel's ordinal; byte 1 has a zero low  *)
(* nibble and its top bit set; channel 0 gives [0x01,0x80,0x00], channel 7 *)
(* of the 8-channel device [0x01,0xF0,0x00], channel 3 of the 4-channel    *)
(* device [0x01,0xB0,0x00].                                                *)
(***************************************************************************)
C1_CommandFrame ==
    \A d \in Drivers : \A i \in CallIds(d) :
        LET ch == calls[d][i].ch
            code == ChannelCode(ch)
            frame == FrameOf(d, i)
        IN  /\ ch \in ChannelsOf(d)
            /\ code \in (IF d \in Drivers8 THEN 0..7 ELSE 0..3)
            /\ bus[d][i][1].op = "Write"
            /\ Len(frame) = 3
            /\ frame[1] = 1
            /\ frame[2] = Shl(BitOr(8, code), 4, 8)
            /\ frame[3] = 0
            /\ frame[2] % 16 = 0
            /\ frame[2] \div 128 = 1
            /\ (code = 0 => frame = <<1, 128, 0>>)
            /\ (d \in Drivers8 /\ code = 7 => frame = <<1, 240, 0>>)
            /\ (d \in Drivers4 /\ code = 3 => frame = <<1, 176, 0>>)

C1_Witness ==
    /\ \E i \in CallIds("Mcp3008") :
          calls["Mcp3008"][i].ch = "CH7" /\ FrameOf("Mcp3008", i) = <<1, 240, 0>>
    /\ \E i \in CallIds("Mcp3004") :
          calls["Mcp3004"][i].ch = "CH3" /\ FrameOf("Mcp3004", i) = <<1, 176, 0>>

(***************************************************************************)
(* C2: for every 3-byte reply of a successful transaction, read_channel    *)
(* returns Ok(sample) with sample = ((reply[1] << 8) | reply[2]) & 0x3FF   *)
(* on 16-bit values, and the sample lies in 0..1023; decoding never fails. *)
(***************************************************************************)
C2_DecodeRange ==
    \A d \in Drivers : \A i \in CallIds(d) :
        Returned(d, i) /\ Replied(d, i) =>
            LET reply == calls[d][i].outcome.buf
                ret == calls[d][i].ret
            IN  /\ ret.tag = "Ok"
                /\ ret.val = BitAnd(BitOr(Shl(reply[2], 8, 16), reply[3]), 1023)
                /\ ret.val \in 0..1023

C2_Witness ==
    /\ Len(calls["Mcp3004"]) = 1
    /\ calls["Mcp3004"][1].outcome = TxnOk(<<255, 255, 255>>)
    /\ calls["Mcp3004"][1].ret = Ok(1023)

(***************************************************************************)
(* C3: every read_channel call, on any driver and channel, issues exactly  *)
(* one bus transaction, an ordered list of exactly two operations: a write *)
(* of the 3-byte command frame, then a read of 3 reply bytes.  Write and   *)
(* read are never two transactions.                                        *)
(***************************************************************************)
C3_OneTransaction ==
    \A d \in Drivers :
        /\ Len(bus[d]) = Len(calls[d])
        /\ \A i \in 1..Len(bus[d]) :
              /\ Len(bus[d][i]) = 2
              /\ bus[d][i][1].op = "Write"
              /\ Len(bus[d][i][1].buf) = 3
              /\ bus[d][i][2].op = "Read"
              /\ Len(bus[d][i][2].buf) = 3

C3_Witness ==
    /\ Len(calls["Mcp3008"]) = 1 /\ Len(bus["Mcp3008"]) = 1
    /\ Len(calls["AsyncMcp3004"]) = 1 /\ Len(bus["AsyncMcp3004"]) = 1
    /\ Returned("AsyncMcp3004", 1)

(***************************************************************************)
(* C4: if the transaction of a read_channel call reports a fault, the call *)
(* returns exactly that fault value and no sample, and there is no further *)
(* bus activity in that call (no retry, no second transaction).            *)
(***************************************************************************)
C4_FaultPropagated ==
    \A d \in Drivers : \A i \in CallIds(d) :
        Returned(d, i) /\ Faulted(d, i) =>
            /\ calls[d][i].ret.tag = "Err"
            /\ calls[d][i].ret.err = calls[d][i].outcome.err
            /\ calls[d][i].ret = [tag |-> "Err", err |-> calls[d][i].outcome.err]
            \* one transaction per call up to and including the faulted one,
            \* and none after it that no call accounts for
            /\ Len(bus[d]) = Len(calls[d])

C4_Witness ==
    /\ Len(calls["Mcp3008"]) = 1
    /\ calls["Mcp3008"][1].outcome = TxnErr("Overrun")
    /\ calls["Mcp3008"][1].ret = [tag |-> "Err", err |-> "Overrun"]
    /\ Len(calls["AsyncMcp3008"]) = 1
    /\ calls["AsyncMcp3008"][1].outcome = TxnErr("ModeFault")
    /\ calls["AsyncMcp3008"][1].ret = [tag |-> "Err", err |-> "ModeFault"]


(***************************************************************************)
(* C5: the sample decoded from [x, b1 | 0b11111100, b2] equals the sample  *)
(* decoded from [x, b1, b2], and the sample does not depend on x: replies  *)
(* that agree on the low 2 bits of byte 1 and on byte 2 decode alike.      *)
(***************************************************************************)
\* The decode of driver d's read_channel.
DecodeOf(d, reply) ==
    CASE d = "Mcp3008" -> Mcp3008_decode(reply)
      [] d = "AsyncMcp3008" -> AsyncMcp3008_decode(reply)
      [] d = "Mcp3004" -> Mcp3004_decode(reply)
      [] d = "AsyncMcp3004" -> AsyncMcp3004_decode(reply)

C5_HighBitsMasked ==
    \A d \in Drivers : \A i \in CallIds(d) :
        Returned(d, i) /\ Replied(d, i) =>
            LET reply == calls[d][i].outcome.buf
                x == reply[1]
                b1 == reply[2]
                b2 == reply[3]
                sample == calls[d][i].ret.val
            IN  /\ sample = DecodeOf(d, <<x, BitOr(b1, 252), b2>>)
                /\ \A hi \in {0, 84, 252} :
                      sample = DecodeOf(d, <<255 - x, (b1 % 4) + hi, b2>>)

C5_Witness ==
    /\ Len(calls["AsyncMcp3008"]) = 1
    /\ calls["AsyncMcp3008"][1].outcome = TxnOk(<<255, 85, 170>>)
    /\ calls["AsyncMcp3008"][1].ret = Ok(426)

(***************************************************************************)
(* C6: for each device, the async read_channel and the blocking one are    *)
(* equivalent: for the same channel both issue the same write-then-read    *)
(* transaction with the same command frame, and for the same bus outcome   *)
(* (same reply bytes or same fault) both return the same result, also      *)
(* when the async call was suspended on its transaction.                   *)
(***************************************************************************)
C6_AsyncEqualsBlocking ==
    \A pair \in {<<"Mcp3008", "AsyncMcp3008">>, <<"Mcp3004", "AsyncMcp3004">>} :
        \A i \in CallIds(pair[1]) : \A j \in CallIds(pair[2]) :
            /\ calls[pair[1]][i].ch = calls[pair[2]][j].ch
                  => bus[pair[1]][i] = bus[pair[2]][j]
            /\ Returned(pair[2], j) /\ calls[pair[1]][i].outcome = calls[pair[2]][j].outcome
                  => calls[pair[1]][i].ret = calls[pair[2]][j].ret

C6_Witness ==
    /\ Len(calls["Mcp3004"]) = 1 /\ Len(calls["AsyncMcp3004"]) = 1
    /\ calls["Mcp3004"][1].ch = "CH2" /\ calls["AsyncMcp3004"][1].ch = "CH2"
    /\ calls["Mcp3004"][1].outcome = TxnOk(<<165, 253, 0>>)
    /\ calls["AsyncMcp3004"][1].outcome = TxnOk(<<165, 253, 0>>)
    /\ calls["Mcp3004"][1].ret = Ok(256)
    /\ calls["AsyncMcp3004"][1].ret = Ok(256)
    /\ pc["AsyncMcp3004"] = "ready"

(***************************************************************************)
(* C7: reads are stateless and independent: after any earlier calls on the *)
(* same driver (successful or faulting, any channels) the command frame of *)
(* a call is determined by that call's channel alone and its result by the *)
(* outcome of its own transaction alone.                                   *)
(***************************************************************************)
\* The frame for a channel and the result for an outcome, as functions of
\* nothing else.
FrameFor(ch) == <<1, 128 + 16 * ChannelCode(ch), 0>>

ResultFor(outcome) ==
    IF outcome.tag = "Err" THEN [tag |-> "Err", err |-> outcome.err]
    ELSE [tag |-> "Ok", val |-> (outcome.buf[2] % 4) * 256 + outcome.buf[3]]

C7_Stateless ==
    \A d \in Drivers : \A j \in CallIds(d) :
        /\ bus[d][j] = <<OpWrite(FrameFor(calls[d][j].ch)), OpRead(<<0, 0, 0>>)>>
        /\ Returned(d, j) => calls[d][j].ret = ResultFor(calls[d][j].outcome)
        /\ \A i \in 1..(j - 1) :
              /\ calls[d][i].ch = calls[d][j].ch => bus[d][i] = bus[d][j]
              /\ Returned(d, j) /\ calls[d][i].outcome = calls[d][j].outcome
                    => calls[d][i].ret = calls[d][j].ret

\* A successful read of another channel right after a faulted one.
C7_Witness ==
    /\ Len(calls["Mcp3008"]) = 2
    /\ calls["Mcp3008"][1].ch = "CH5"
    /\ calls["Mcp3008"][1].ret = [tag |-> "Err", err |-> "Overrun"]
    /\ calls["Mcp3008"][2].ch = "CH1"
    /\ calls["Mcp3008"][2].outcome = TxnOk(<<165, 253, 0>>)
    /\ calls["Mcp3008"][2].ret = Ok(256)
    /\ FrameOf("Mcp3008", 2) = <<1, 144, 0>>

(***************************************************************************)
(* C8: the async read_channel has one suspension point, the transaction:   *)
(* a call never returns a sample or fault before its transaction has       *)
(* completed, shows no result while suspended, and once the transaction    *)
(* has completed the call can complete, with exactly one outcome, which is *)
(* never replaced.  Suspended reads on distinct drivers interleave, and    *)
(* each returns the decode of its own transaction's reply.                 *)
(***************************************************************************)
C8_SuspendedState ==
    \A d \in AsyncDrivers :
        /\ \A i \in CallIds(d) :
              /\ Returned(d, i) => calls[d][i].outcome # Outstanding
              /\ Returned(d, i) => calls[d][i].ret = ResultFor(calls[d][i].outcome)
              /\ ~Returned(d, i) => i = Len(calls[d]) /\ pc[d] = "awaiting"
        /\ pc[d] = "awaiting" => Len(calls[d]) > 0 /\ ~Returned(d, Len(calls[d]))
        /\ pc[d] = "awaiting" /\ Last(calls[d]).outcome # Outstanding =>
              IF d = "AsyncMcp3008" THEN ENABLED AsyncMcp3008_read_channel_resume
              ELSE ENABLED AsyncMcp3004_read_channel_resume

C8_OneOutcome ==
    \A d \in AsyncDrivers : \A i \in CallIds(d) :
        /\ i \in 1..Len(calls'[d])
        /\ calls[d][i].outcome # Outstanding => calls'[d][i].outcome = calls[d][i].outcome
        /\ Returned(d, i) => calls'[d][i] = calls[d][i]
        /\ ~Returned(d, i) /\ calls'[d][i].ret # Pending =>
              /\ calls[d][i].outcome # Outstanding
              /\ bus'[d] = bus[d]

C8_SingleSuspensionPoint == [](C8_SuspendedState) /\ [][C8_OneOutcome]_vars

\* Both async drivers were suspended together; AsyncMcp3008 has resumed with
\* its own sample while AsyncMcp3004 is still suspended on a different reply.
C8_Witness ==
    /\ Len(calls["AsyncMcp3008"]) = 1 /\ Len(calls["AsyncMcp3004"]) = 1
    /\ calls["AsyncMcp3008"][1].outcome = TxnOk(<<0, 2, 255>>)
    /\ calls["AsyncMcp3008"][1].ret = Ok(767)
    /\ pc["AsyncMcp3004"] = "awaiting"
    /\ calls["AsyncMcp3004"][1].outcome = TxnOk(<<165, 253, 0>>)
    /\ calls["AsyncMcp3004"][1].ret = Pending

(***************************************************************************)
(* C9: for every reply whose byte 1 is confined to its 2 low bits (hi in   *)
(* 0..3) and every byte 2 (lo), the returned sample is (hi << 8) | lo, so  *)
(* hi and lo are recovered from the sample and each value 0..1023 comes    *)
(* from exactly one such pair; the reply [0x00, 0x02, 0xFF] decodes to 767.*)
(***************************************************************************)
C9_RoundTrip ==
    \A d \in Drivers : \A i \in CallIds(d) :
        Returned(d, i) /\ Replied(d, i) /\ calls[d][i].outcome.buf[2] \in 0..3 =>
            LET hi == calls[d][i].outcome.buf[2]
                lo == calls[d][i].outcome.buf[3]
                sample == calls[d][i].ret.val
            IN  /\ calls[d][i].ret.tag = "Ok"
                /\ sample = BitOr(Shl(hi, 8, 16), lo)
                /\ sample = hi * 256 + lo
                /\ sample \div 256 = hi
                /\ sample % 256 = lo
                /\ (calls[d][i].outcome.buf = <<0, 2, 255>> => sample = 767)

C9_Witness ==
    /\ Len(calls["Mcp3008"]) = 1
    /\ calls["Mcp3008"][1].outcome = TxnOk(<<0, 2, 255>>)
    /\ calls["Mcp3008"][1].ret = Ok(767)

(***************************************************************************)
(* C10: within one device two different channels never produce the same    *)
(* command frame (byte 1 differs), and for each channel code 0..3 the      *)
(* 4-channel drivers write exactly the frame the 8-channel drivers write   *)
(* for the channel with the same code.                                     *)
(***************************************************************************)
C10_FramingInjectiveShared ==
    /\ \A d \in Drivers : \A i \in CallIds(d) : \A j \in CallIds(d) :
          calls[d][i].ch # calls[d][j].ch => FrameOf(d, i)[2] # FrameOf(d, j)[2]
    /\ \A d8 \in Drivers8 : \A d4 \in Drivers4 :
          \A i \in CallIds(d8) : \A j \in CallIds(d4) :
              ChannelCode(calls[d8][i].ch) = ChannelCode(calls[d4][j].ch)
                  => FrameOf(d8, i) = FrameOf(d4, j)

C10_Witness ==
    /\ Len(calls["Mcp3008"]) = 1 /\ Len(calls["Mcp3004"]) = 1
    /\ calls["Mcp3008"][1].ch = "CH3" /\ calls["Mcp3004"][1].ch = "CH3"
    /\ FrameOf("Mcp3008", 1) = <<1, 176, 0>>
    /\ FrameOf("Mcp3004", 1) = <<1, 176, 0>>

====
